---- MODULE Spec2Model ----
(***************************************************************************)
(* Model of unicornherder's Herder (src/unicornherder/herder.py): spawn(), *)
(* the monitor loop (loop / _loop_inner / _read_pidfile), the signal       *)
(* handlers (_handle_HUP, _handle_signal) and the handover routines        *)
(* (_wait_for_workers, _kill_old_master).                                  *)
(*                                                                         *)
(* One main thread runs spawn() and then loop(); `pc` is its position.     *)
(* Python runs signal handlers in the main thread between two statements: *)
(* a handler may start at any `pc` once it is installed, also while        *)
(* another handler is running, and the code it interrupted goes on when    *)
(* it has returned.  `hframes` is the stack of the handlers that have      *)
(* started and not returned; the main thread takes a step only when that   *)
(* stack is empty.  The managed server is the environment: what            *)
(* the pidfile holds, whether a PID names a live process and how many      *)
(* children a process has are inputs drawn when the code reads them.       *)
(* send_signal is modelled as the call.  `sent` is the log of the calls the *)
(* supervisor makes on its own account (spawn, _kill_old_master);          *)
(* `relayed` holds the call made by the step just taken, when that was a   *)
(* step of a handler.                                                      *)
(* Time is an integer number of seconds; only blocking calls advance it.   *)
(* A local variable is reset to its initial value when its function        *)
(* returns, since it no longer exists then.                                *)
(***************************************************************************)
EXTENDS Integers, Sequences, FiniteSets

\* ---------------------------------------------------------------- bounds
MaxPid == 2          \* master PIDs are 1..MaxPid
MaxChildren == 3     \* a process reports 0..MaxChildren children
MaxTime == 6         \* the clock stops the run at MaxTime seconds
MaxSignals == 2      \* operator signals delivered in one run
Jitter == 0          \* a sleep of n seconds takes n..n+Jitter seconds

\* configuration of the Herder (constructor arguments, herder.py:49-50)
boot_timeout == 2
pidfile_timeout == 2
overlap == 1
max_worker_wait_time == 1

\* ------------------------------------------------------------- constants
NoPid == 0                       \* None (self.master, old_master, pid)
NotReturned == -1                \* loop() has not returned a status
MasterPids == 1 .. MaxPid
FgPid == MaxPid + 1              \* PID of the process started by Popen

\* psutil's send_signal either sends the signal or, when the process is
\* gone, raises NoSuchProcess (herder.py:244, 255, 312, 315)
SendOutcomes == {"sent", "NoSuchProcess"}

\* psutil's children() either lists the children or, when the process is
\* gone, raises NoSuchProcess (herder.py:276, 284)
ChildrenOutcomes == {"count", "NoSuchProcess"}

\* signals forwarded by _handle_signal (herder.py:156)
ForwardedSignals == {"INT", "QUIT", "TERM", "TTIN", "TTOU", "USR1", "USR2"}

\* signals after which the master is expected to die (herder.py:239)
TerminatingSignals == {"INT", "QUIT", "TERM"}

\* signal sent to the master by _handle_HUP (herder.py:255)
ReloadSignal == "USR2"

\* the shutdown sequence of _kill_old_master (herder.py:312-315)
KillSequence == <<"WINCH", "QUIT">>

\* seconds slept between the two sends of _kill_old_master (herder.py:313)
KillPause == 1

\* seconds slept between two pidfile reads (herder.py:224)
PidfileRetryPause == 1

\* seconds slept between two worker polls (herder.py:285)
WorkerPollPause == 1

\* seconds slept between two iterations of loop() (herder.py:169)
LoopPause == 2

\* status returned by loop() when self.terminating = term (herder.py:168);
\* the code has a single `return 1`
LoopStatus(term) == 1

VARIABLES
  pc,              \* position of the main thread
  now,             \* time.time()
  master,          \* self.master (its pid, NoPid for None)
  reloading,       \* self.reloading
  terminating,     \* self.terminating
  MANAGED_PIDS,    \* the module-level registry
  installed,       \* signals that have a handler installed
  sent,            \* log of the terminate / send_signal calls of spawn()
                   \* and _kill_old_master
  relayed,         \* the send_signal call of the step just taken, when a
                   \* handler took it
  old_master,      \* local of _loop_inner
  pid,             \* local of _loop_inner: result of _read_pidfile
  start,           \* local of _read_pidfile
  expected_children, \* local of _wait_for_workers
  wstart,          \* time at which _wait_for_workers armed its timeout
  fg,              \* the process started by spawn(): none/running/exited
  spawn_ret,       \* what spawn() returned
  loop_ret,        \* the status loop() returned (NotReturned before)
  loop_exc,        \* the exception that left loop(), "none" otherwise
  delivered,       \* operator signals delivered so far
  hframes,         \* the handlers that have started and not returned,
                   \* innermost last, each with its position
  slaughtered,     \* PIDs killed by _emergency_slaughter
  it,              \* history of the current _loop_inner iteration
  old_children,    \* len(old_process.children()) read by _wait_for_workers
  polled,          \* len(new_process.children()) read by the last poll
  config,          \* the arguments unicorn, unicorn_bin, gunicorn_bin
  unicorn,         \* self.unicorn
  cmd,             \* local of spawn(): the command line it resolved
  reload_req       \* tracked PIDs that _handle_HUP asked to reload

vars == <<pc, now, master, reloading, terminating, MANAGED_PIDS, installed,
          sent, relayed, old_master, pid, start, expected_children, wstart, fg,
          spawn_ret, loop_ret, loop_exc, delivered, hframes,
          slaughtered, it,
          old_children, polled, config, unicorn, cmd, reload_req>>

herderVars == <<master, reloading, terminating>>
localVars == <<old_master, pid, start, expected_children, wstart>>
spawnVars == <<fg, spawn_ret, installed, slaughtered>>
sigVars == <<delivered, relayed, hframes>>
loopRet == <<loop_ret, loop_exc>>
countVars == <<old_children, polled>>
cmdVars == <<config, unicorn, cmd>>

\* value of a child count that has not been read (or is no longer in scope)
NoCount == -1

\* ---------------------------------------------------------------- helpers
Max(a, b) == IF a >= b THEN a ELSE b

\* no handler is running: the main thread executes its own code
MainRuns == hframes = <<>>

\* a step of the main thread is not a step of a handler: the record of
\* the latest handler step is empty after it
NoRelay == relayed' = <<>>

\* log entry of a call made by spawn() or _kill_old_master at time t
SendAt(sig, to, by, t) == [sig |-> sig, to |-> to, by |-> by, at |-> t]

\* log entry of a call made by a handler while self.terminating = term
Relay(sig, to, by, term) == [sig |-> sig, to |-> to, by |-> by, term |-> term]

\* the times at which a sleep of n seconds started at t may end
SleepEnd(t, n) == {t + n + s : s \in 0 .. Jitter}

\* timeout(limit) armed at t0 has fired by time t
TimedOut(t0, limit, t) == t - t0 >= limit

\* history of an iteration: the steps it took, what line 197 found in
\* self.reloading, self.reloading when the iteration started, and the
\* number of pidfile reads that failed and were retried
NewIteration ==
  [trace |-> <<>>, found |-> "unchecked", entry |-> reloading, retries |-> 0]

\* ------------------------------------------------------- command table
\* herder.py:14-21: the command templates.  prog is the program a template
\* names, binfield the replacement field that stands for it ("none" when
\* the program is spelled out), flag the option introducing the pidfile and
\* fields the replacement fields of the template.
COMMANDS ==
  [unicorn |-> [prog |-> "unicorn", binfield |-> "none", flag |-> "-P",
                fields |-> {"pidfile", "args"}],
   unicorn_rails |-> [prog |-> "unicorn_rails", binfield |-> "none",
                      flag |-> "none", fields |-> {"args"}],
   unicorn_bin |-> [prog |-> "none", binfield |-> "unicorn_bin",
                    flag |-> "-P",
                    fields |-> {"unicorn_bin", "pidfile", "args"}],
   gunicorn |-> [prog |-> "gunicorn", binfield |-> "none", flag |-> "-p",
                 fields |-> {"pidfile", "args"}],
   gunicorn_django |-> [prog |-> "gunicorn_django", binfield |-> "none",
                        flag |-> "-p", fields |-> {"pidfile", "args"}],
   gunicorn_bin |-> [prog |-> "none", binfield |-> "gunicorn_bin",
                     flag |-> "-p",
                     fields |-> {"gunicorn_bin", "pidfile", "args"}]]

\* a custom binary that was not given (None or the empty string)
NoBin == ""

\* self.unicorn before __init__ has assigned it
Unset == "unset"

\* cmd before spawn() has resolved it
NoCmd == [prog |-> "none", flag |-> "none"]

\* flavor names tried at construction: those of the table and one outside
Flavors == DOMAIN COMMANDS \cup {"bogus"}

\* custom binary paths tried at construction: none, a path, and a path
\* that reads like a name of the table
Bins == {NoBin, "/opt/bin/server", "unicorn"}

Configs == [unicorn : Flavors, unicorn_bin : Bins, gunicorn_bin : Bins]

\* herder.py:49: the defaults of __init__
DefaultConfig ==
  [unicorn |-> "gunicorn", unicorn_bin |-> NoBin, gunicorn_bin |-> NoBin]

\* herder.py:76-81: the value __init__ gives self.unicorn
SelfUnicorn(cfg) ==
  IF cfg.unicorn_bin # NoBin THEN cfg.unicorn_bin
  ELSE IF cfg.gunicorn_bin # NoBin THEN cfg.gunicorn_bin
  ELSE cfg.unicorn

\* herder.py:89-93: __init__ raises HerderError
CtorRaises(cfg) ==
  /\ cfg.unicorn_bin = NoBin
  /\ cfg.gunicorn_bin = NoBin
  /\ SelfUnicorn(cfg) \notin DOMAIN COMMANDS

\* str.format raises KeyError when the template has a replacement field
\* that is not among the keyword arguments kw
FormatRaises(tpl, kw) == ~(tpl.fields \subseteq DOMAIN kw)

\* the command line str.format produces from tpl and kw
Format(tpl, kw) ==
  [prog |-> IF tpl.binfield = "none" THEN tpl.prog ELSE kw[tpl.binfield],
   flag |-> tpl.flag]

\* herder.py:107-115: the table entry spawn() picks ("none": it returns
\* False at line 117)
TemplateKey(cfg, u) ==
  IF u \in DOMAIN COMMANDS THEN u
  ELSE IF cfg.unicorn_bin # NoBin THEN "unicorn_bin"
  ELSE IF cfg.gunicorn_bin # NoBin THEN "gunicorn_bin"
  ELSE "none"

\* herder.py:109, 112, 115: the keyword arguments given to str.format
FormatArgs(cfg, u) ==
  IF u \in DOMAIN COMMANDS
  THEN [pidfile |-> "pidfile", args |-> "args"]
  ELSE IF cfg.unicorn_bin # NoBin
       THEN [unicorn_bin |-> u, pidfile |-> "pidfile", args |-> "args"]
       ELSE [gunicorn_bin |-> u, pidfile |-> "pidfile", args |-> "args"]

\* ------------------------------------------------------------------ Init
\* Herder.__init__ (herder.py:95-97) and MANAGED_PIDS = set([])
Init ==
  /\ pc = "new"
  /\ now = 0
  /\ master = NoPid
  /\ reloading = FALSE
  /\ terminating = FALSE
  /\ MANAGED_PIDS = {}
  /\ installed = {}
  /\ sent = <<>>
  /\ relayed = <<>>
  /\ old_master = NoPid
  /\ pid = NoPid
  /\ start = 0
  /\ expected_children = 0
  /\ wstart = 0
  /\ fg = "none"
  /\ spawn_ret = "none"
  /\ loop_ret = NotReturned
  /\ loop_exc = "none"
  /\ delivered = 0
  /\ hframes = <<>>
  /\ slaughtered = {}
  /\ it = [trace |-> <<>>, found |-> "unchecked", entry |-> FALSE,
           retries |-> 0]
  /\ old_children = NoCount
  /\ polled = NoCount
  /\ config = DefaultConfig
  /\ unicorn = SelfUnicorn(DefaultConfig)
  /\ cmd = NoCmd
  /\ reload_req = {}

\* herder.py:107-117: spawn() resolves its command line
SpawnResolve ==
  /\ pc = "new"
  /\ LET key == TemplateKey(config, unicorn)
     IN  IF key = "none"
         THEN /\ spawn_ret' = "false_nocmd"
              /\ pc' = "spawn_failed"
              /\ cmd' = cmd
         ELSE IF FormatRaises(COMMANDS[key], FormatArgs(config, unicorn))
              THEN /\ spawn_ret' = "raised_KeyError"
                   /\ pc' = "spawn_failed"
                   /\ cmd' = cmd
              ELSE /\ cmd' = Format(COMMANDS[key],
                                    FormatArgs(config, unicorn))
                   /\ pc' = "L121"
                   /\ spawn_ret' = spawn_ret
  /\ UNCHANGED <<now, herderVars, MANAGED_PIDS, fg, installed, slaughtered,
                 sent, localVars, loopRet, sigVars, it, countVars, config,
                 unicorn>>
  /\ UNCHANGED reload_req

\* ----------------------------------------------------------------- spawn
\* herder.py:121-131: Popen, then MANAGED_PIDS.add(process.pid).
\* Popen may raise OSError: errno 2 returns False, any other is re-raised.
SpawnLaunch ==
  /\ pc = "L121"
  /\ \E outcome \in {"ok", "enoent", "oserror"} :
       CASE outcome = "ok" ->
              /\ fg' = "running"
              /\ MANAGED_PIDS' = MANAGED_PIDS \cup {FgPid}
              /\ start' = now
              /\ pc' = "spawn_wait"
              /\ UNCHANGED spawn_ret
         [] outcome = "enoent" ->
              /\ spawn_ret' = "false_notfound"
              /\ pc' = "spawn_failed"
              /\ UNCHANGED <<fg, MANAGED_PIDS, start>>
         [] outcome = "oserror" ->
              /\ spawn_ret' = "raised"
              /\ pc' = "spawn_failed"
              /\ UNCHANGED <<fg, MANAGED_PIDS, start>>
  /\ UNCHANGED <<now, herderVars, installed, slaughtered, sent, old_master,
                 pid, expected_children, wstart, loopRet, sigVars, it>>
  /\ UNCHANGED countVars
  /\ UNCHANGED cmdVars
  /\ UNCHANGED reload_req

\* what spawn() installs once the server has daemonized (herder.py:148-158)
InstalledOnSuccess == {"HUP"} \cup ForwardedSignals

\* faulty variant: the PID is left in the registry
RegistryAfterBoot_mut(reg) == reg
\* the registry after the foreground process exited in time (herder.py:145)
RegistryAfterBoot(reg) == reg \ {FgPid}

\* herder.py:133-135 then 143-145: process.wait() returns within
\* boot_timeout and the PID is removed.  No handler is installed yet.
SpawnSuccess ==
  /\ pc = "spawn_wait"
  /\ \E d \in 0 .. boot_timeout :
       /\ ~TimedOut(start, boot_timeout, now + d)
       /\ now + d <= MaxTime
       /\ now' = now + d
  /\ fg' = "exited"
  /\ MANAGED_PIDS' = RegistryAfterBoot(MANAGED_PIDS)
  /\ pc' = "L148"
  /\ start' = 0
  /\ UNCHANGED <<herderVars, installed, spawn_ret, slaughtered, sent,
                 old_master, pid, expected_children, wstart, loopRet,
                 sigVars, it>>
  /\ UNCHANGED countVars
  /\ UNCHANGED cmdVars
  /\ UNCHANGED reload_req

\* herder.py:148: signal.signal(signal.SIGHUP, self._handle_HUP)
InstallHUP ==
  /\ pc = "L148"
  /\ installed' = installed \cup {"HUP"}
  /\ pc' = "L156"
  /\ UNCHANGED <<now, herderVars, MANAGED_PIDS, fg, spawn_ret, slaughtered,
                 sent, localVars, loopRet, sigVars, it, countVars, cmdVars,
                 reload_req>>

\* herder.py:156: the order in which the forwarding handlers are installed
ForwardedOrder == <<"INT", "QUIT", "TERM", "TTIN", "TTOU", "USR1", "USR2">>

\* the number of passes the loop of line 156 has made
Passes == Cardinality(installed \cap ForwardedSignals)

\* herder.py:156-158: one pass of the loop installs the handler of one
\* forwarded signal; after the last pass control is at line 160
InstallForwarded ==
  /\ pc = "L156"
  /\ MainRuns
  /\ NoRelay
  /\ Passes < Len(ForwardedOrder)
  /\ installed' = installed \cup {ForwardedOrder[Passes + 1]}
  /\ pc' = IF Passes + 1 = Len(ForwardedOrder) THEN "L160" ELSE "L156"
  /\ UNCHANGED <<now, herderVars, MANAGED_PIDS, fg, spawn_ret, slaughtered,
                 sent, localVars, loopRet, delivered, hframes, it, countVars, cmdVars,
                 reload_req>>

\* herder.py:160: return True
SpawnReturn ==
  /\ pc = "L160"
  /\ MainRuns
  /\ NoRelay
  /\ spawn_ret' = "true"
  /\ pc' = "L172"
  /\ UNCHANGED <<now, herderVars, MANAGED_PIDS, fg, installed, slaughtered,
                 sent, localVars, loopRet, delivered, hframes, it, countVars, cmdVars,
                 reload_req>>

\* faulty variant: the PID is removed on a boot timeout as well
RegistryAfterBootTimeout_mut(reg) == reg \ {FgPid}
\* the registry after a boot timeout (herder.py:136-141: nothing is removed)
RegistryAfterBootTimeout(reg) == reg

\* faulty variant: the handlers are installed before the wait
InstalledOnFailure_mut == {"HUP"} \cup ForwardedSignals
\* what spawn() installs when the boot timed out (herder.py:141 returns
\* before line 148)
InstalledOnFailure == {}

\* herder.py:136-141: TimeoutError after boot_timeout seconds; terminate()
\* is sent only if poll() still reports the process running.
SpawnTimeout ==
  /\ pc = "spawn_wait"
  /\ \E t \in SleepEnd(start, boot_timeout) :
       /\ t >= now
       /\ t <= MaxTime
       /\ now' = t
  /\ \E running \in BOOLEAN :
       IF running
       THEN /\ sent' = Append(sent, SendAt("TERM", FgPid, "spawn", now'))
            /\ fg' = "running"
       ELSE /\ sent' = sent
            /\ fg' = "exited"
  /\ MANAGED_PIDS' = RegistryAfterBootTimeout(MANAGED_PIDS)
  /\ installed' = InstalledOnFailure
  /\ spawn_ret' = "false_timeout"
  /\ pc' = "spawn_failed"
  /\ start' = 0
  /\ UNCHANGED <<herderVars, slaughtered, old_master, pid,
                 expected_children, wstart, loopRet, sigVars, it>>
  /\ UNCHANGED countVars
  /\ UNCHANGED cmdVars
  /\ UNCHANGED reload_req

\* ------------------------------------------------------------ monitor loop
\* the main thread is inside loop()
InLoop ==
  pc \notin {"ctor", "ctor_raised", "new", "L121", "spawn_wait", "L148",
            "L156", "L160", "spawn_failed", "exited", "raised", "reaped"}

\* an exception that nothing catches unwinds the frames of loop(),
\* _loop_inner and the routines they called: their locals are gone
Unwind ==
  /\ old_master' = NoPid
  /\ pid' = NoPid
  /\ start' = 0
  /\ expected_children' = 0
  /\ wstart' = 0
  /\ old_children' = NoCount
  /\ polled' = NoCount

\* herder.py:178-181: the main thread is inside the try whose except
\* clause catches psutil.NoSuchProcess
InTry == pc = "L179"

\* herder.py:180-181: NoSuchProcess is caught and _loop_inner returns
\* False; its local pid is gone
Caught ==
  /\ pid' = NoPid
  /\ UNCHANGED <<old_master, start, expected_children, wstart, countVars>>

\* where the main thread is after NoSuchProcess was raised at its current
\* position: at the return False of line 181 inside the try, otherwise
\* out of every frame.  Raised into the exit functions that run after
\* _emergency_slaughter (herder.py:263), it is reported and the exit goes
\* on.
PcAfterRaise ==
  IF InTry THEN "died" ELSE IF pc = "reaped" THEN "reaped" ELSE "raised"

\* what is recorded as the exception that left loop() after NoSuchProcess
\* was raised at the current position of the main thread: none when line
\* 180 catches it
LoopExcAfterRaise ==
  IF InLoop /\ ~InTry THEN "NoSuchProcess" ELSE loop_exc

\* the locals of the main thread after a handler has run
AfterHandler ==
  IF pc' = pc
  THEN UNCHANGED <<localVars, countVars>>
  ELSE IF pc' = "died" THEN Caught ELSE Unwind

Tag(tag) == [it EXCEPT !.trace = Append(@, tag)]

\* herder.py:172 and 207-209: old_master = self.master; start = time.time()
IterStart ==
  /\ pc = "L172"
  /\ MainRuns
  /\ NoRelay
  /\ old_master' = master
  /\ start' = now
  /\ it' = NewIteration
  /\ pc' = "read"
  /\ UNCHANGED <<now, herderVars, MANAGED_PIDS, spawnVars, sent, pid,
                 expected_children, wstart, loopRet, delivered, hframes>>
  /\ UNCHANGED countVars
  /\ UNCHANGED cmdVars
  /\ UNCHANGED reload_req

\* faulty variant: a failed read is retried whatever self.terminating is
ExpectingDeath_mut == FALSE
\* herder.py:219: `if self.terminating`
ExpectingDeath == terminating

\* herder.py:173 and 213-223: one attempt to read the pidfile.
\* Pidfile.pid yields a PID or raises PidfileError; on an error the read
\* gives up with None when self.terminating is set and retries otherwise.
\* What the read returns is assigned to pid.
ReadPidfile ==
  /\ pc = "read"
  /\ MainRuns
  /\ NoRelay
  /\ \E r \in MasterPids \cup {NoPid} :
       IF r # NoPid
       THEN /\ pid' = r
            /\ start' = 0
            /\ pc' = "L175"
            /\ it' = [it EXCEPT !.retries = 0]
       ELSE IF ExpectingDeath
            THEN pid' = NoPid /\ start' = 0 /\ pc' = "L175" /\ it' = it
            ELSE /\ pid' = pid
                 /\ start' = start
                 /\ pc' = "read_sleep"
                 /\ it' = [it EXCEPT !.retries = @ + 1]
  /\ UNCHANGED <<now, herderVars, MANAGED_PIDS, spawnVars, sent, old_master,
                 expected_children, wstart, loopRet, delivered, hframes>>
  /\ UNCHANGED countVars
  /\ UNCHANGED cmdVars
  /\ UNCHANGED reload_req

\* faulty variant: the budget counts as exhausted one comparison early
PidfileExpired_mut(t) == (t - start) >= pidfile_timeout
\* herder.py:225: the retry budget is exhausted at time t
PidfileExpired(t) == (t - start) > pidfile_timeout

\* herder.py:224-231: sleep a second, then raise HerderError if more than
\* pidfile_timeout seconds have passed since `start`, else retry.
ReadRetry ==
  /\ pc = "read_sleep"
  /\ MainRuns
  /\ NoRelay
  /\ \E t \in SleepEnd(now, PidfileRetryPause) :
       /\ t <= MaxTime
       /\ now' = t
       /\ IF PidfileExpired(t)
          THEN pc' = "raised" /\ loop_exc' = "HerderError"
          ELSE pc' = "read" /\ loop_exc' = loop_exc
  /\ UNCHANGED loop_ret
  /\ UNCHANGED <<herderVars, MANAGED_PIDS, spawnVars, sent, localVars,
                 delivered, hframes, it>>
  /\ UNCHANGED countVars
  /\ UNCHANGED cmdVars
  /\ UNCHANGED reload_req

\* herder.py:175-178: `if pid is None: return False`, else enter the try
TestPid ==
  /\ pc = "L175"
  /\ MainRuns
  /\ NoRelay
  /\ pc' = IF pid = NoPid THEN "died" ELSE "L179"
  /\ UNCHANGED <<now, herderVars, MANAGED_PIDS, spawnVars, sent, localVars,
                 loopRet, delivered, hframes, it>>
  /\ UNCHANGED countVars
  /\ UNCHANGED cmdVars
  /\ UNCHANGED reload_req

\* faulty variant: the reference is dropped when the process is gone
MasterOnNoSuchProcess_mut(m) == NoPid
\* herder.py:178-181: when psutil.Process raises, the assignment to
\* self.master does not take place
MasterOnNoSuchProcess(m) == m

\* herder.py:178-181: psutil.Process(pid) either names a live process,
\* which becomes self.master, or raises NoSuchProcess (return False).
ResolveMaster ==
  /\ pc = "L179"
  /\ MainRuns
  /\ NoRelay
  /\ \E exists \in BOOLEAN :
       IF exists
       THEN master' = pid /\ pc' = "L183"
       ELSE master' = MasterOnNoSuchProcess(master) /\ pc' = "died"
  /\ pid' = NoPid
  /\ UNCHANGED <<now, reloading, terminating, MANAGED_PIDS, spawnVars, sent,
                 old_master, start, expected_children, wstart, loopRet,
                 delivered, hframes, it>>
  /\ UNCHANGED countVars
  /\ UNCHANGED cmdVars
  /\ UNCHANGED reload_req

\* faulty variant: the PIDs are not compared
MasterChanged_mut == old_master # NoPid
\* herder.py:189: unicorn has forked a new master
MasterChanged == old_master # NoPid /\ master # old_master

\* herder.py:186 and 195: MANAGED_PIDS.add(self.master.pid)
RegistryWithNew(reg, p) == reg \cup {p}

\* herder.py:183-195, and 204 when the PID is unchanged
Register ==
  /\ pc = "L183"
  /\ MainRuns
  /\ NoRelay
  /\ IF old_master = NoPid
     THEN /\ MANAGED_PIDS' = RegistryWithNew(MANAGED_PIDS, master)
          /\ it' = Tag("add_new")
     ELSE IF MasterChanged
          THEN /\ MANAGED_PIDS' = RegistryWithNew(MANAGED_PIDS, master)
               /\ it' = Tag("add_new")
          ELSE UNCHANGED <<MANAGED_PIDS, it>>
  /\ pc' = IF MasterChanged THEN "L197" ELSE "L169"
  /\ old_master' = IF MasterChanged THEN old_master ELSE NoPid
  /\ UNCHANGED <<now, herderVars, spawnVars, sent, pid, start,
                 expected_children, wstart, loopRet, delivered, hframes>>
  /\ UNCHANGED countVars
  /\ UNCHANGED cmdVars
  /\ UNCHANGED reload_req

\* faulty variant: the forked new master is not taken off the count
ExpectedChildren_mut(c) == Max(c, 1)
\* herder.py:276-278: the child count the new master has to reach
ExpectedChildren(c) == Max(c - 1, 1)

\* faulty variant: the handover runs on every change of PID
HandoverWanted_mut == TRUE
\* herder.py:197: the handover runs when self.reloading is set
HandoverWanted == reloading

\* herder.py:197-198 and 276-283: test self.reloading; when set, enter
\* _wait_for_workers, compute expected_children from the old master's
\* children and arm the timeout.  When the old master is gone children()
\* raises NoSuchProcess, which is caught nowhere and leaves loop().
CheckReloading ==
  /\ pc = "L197"
  /\ MainRuns
  /\ NoRelay
  /\ IF HandoverWanted
     THEN /\ it' = [it EXCEPT !.found = IF reloading THEN "set" ELSE "clear",
                              !.trace = Append(@, "wait")]
          /\ \E outcome \in ChildrenOutcomes :
               IF outcome = "count"
               THEN /\ \E c \in 0 .. MaxChildren :
                         /\ old_children' = c
                         /\ expected_children' = ExpectedChildren(c)
                    /\ polled' = NoCount
                    /\ wstart' = now
                    /\ pc' = "wfw_poll"
                    /\ UNCHANGED <<old_master, pid, start, loop_exc>>
               ELSE /\ pc' = "raised"
                    /\ loop_exc' = "NoSuchProcess"
                    /\ Unwind
     ELSE /\ it' = [it EXCEPT !.found = IF reloading THEN "set" ELSE "clear"]
          /\ pc' = "L202"
          /\ UNCHANGED <<expected_children, wstart, countVars>>
          /\ UNCHANGED <<old_master, pid, start, loop_exc>>
  /\ UNCHANGED <<now, herderVars, MANAGED_PIDS, spawnVars, sent, loop_ret,
                 delivered, hframes>>
  /\ UNCHANGED cmdVars
  /\ UNCHANGED reload_req

\* herder.py:284: compare the new master's child count with the target.
\* When the new master is gone children() raises NoSuchProcess; the try
\* of line 282 catches TimeoutError only, so it leaves loop().
WorkerPoll ==
  /\ pc = "wfw_poll"
  /\ MainRuns
  /\ NoRelay
  /\ \E outcome \in ChildrenOutcomes :
       IF outcome = "count"
       THEN /\ \E c \in 0 .. MaxChildren :
                 /\ polled' = c
                 /\ pc' = IF c < expected_children
                          THEN "wfw_sleep"
                          ELSE "wfw_overlap"
            /\ UNCHANGED <<old_children, localVars, loop_exc>>
       ELSE /\ pc' = "raised"
            /\ loop_exc' = "NoSuchProcess"
            /\ Unwind
  /\ UNCHANGED <<now, herderVars, MANAGED_PIDS, spawnVars, sent, loop_ret,
                 delivered, hframes, it>>
  /\ UNCHANGED cmdVars
  /\ UNCHANGED reload_req

\* herder.py:285 and 291-294: sleep a second between polls; the timeout
\* armed on entry interrupts the sleep once max_worker_wait_time seconds
\* have passed, and the routine then returns without the overlap sleep.
WorkerSleep ==
  /\ pc = "wfw_sleep"
  /\ MainRuns
  /\ NoRelay
  /\ \E t \in SleepEnd(now, WorkerPollPause) :
       \/ /\ TimedOut(wstart, max_worker_wait_time, t)
          /\ now' = Max(now, wstart + max_worker_wait_time)
          /\ now' <= MaxTime
          /\ it' = Tag("timeout")
          /\ pc' = "kill_1"
          /\ old_children' = NoCount
          /\ expected_children' = 0
       \/ /\ t <= wstart + max_worker_wait_time
          /\ t <= MaxTime
          /\ now' = t
          /\ it' = it
          /\ pc' = "wfw_poll"
          /\ old_children' = old_children
          /\ expected_children' = expected_children
  /\ polled' = NoCount
  /\ UNCHANGED <<herderVars, MANAGED_PIDS, spawnVars, sent, old_master, pid,
                 start, wstart, loopRet, delivered, hframes>>
  /\ UNCHANGED cmdVars
  /\ UNCHANGED reload_req

\* herder.py:290: time.sleep(overlap)
OverlapDelay == overlap

\* herder.py:287-290: the target was reached; sleep for the overlap
OverlapSleep ==
  /\ pc = "wfw_overlap"
  /\ MainRuns
  /\ NoRelay
  /\ \E t \in SleepEnd(now, OverlapDelay) :
       /\ t <= MaxTime
       /\ now' = t
  /\ it' = Tag("overlap")
  /\ pc' = "kill_1"
  /\ old_children' = NoCount
  /\ polled' = NoCount
  /\ expected_children' = 0
  /\ UNCHANGED <<herderVars, MANAGED_PIDS, spawnVars, sent, old_master, pid,
                 start, wstart, loopRet, delivered, hframes>>
  /\ UNCHANGED cmdVars
  /\ UNCHANGED reload_req

\* faulty variant: the shutdown sequence goes to self.master
KillTarget_mut == master
\* herder.py:199: _kill_old_master(old_master)
KillTarget == old_master

\* herder.py:311-312: first send of _kill_old_master; NoSuchProcess is
\* caught nowhere and leaves loop()
KillFirst ==
  /\ pc = "kill_1"
  /\ MainRuns
  /\ NoRelay
  /\ \E outcome \in SendOutcomes :
       IF outcome = "sent"
       THEN /\ sent' = Append(sent, SendAt(KillSequence[1], KillTarget,
                                           "kill_old_master", now))
            /\ it' = Tag("kill_1")
            /\ pc' = "kill_sleep"
            /\ loop_exc' = loop_exc
       ELSE /\ sent' = sent
            /\ it' = it
            /\ pc' = "raised"
            /\ loop_exc' = "NoSuchProcess"
  /\ IF pc' = "raised"
     THEN Unwind
     ELSE /\ wstart' = 0
          /\ UNCHANGED <<old_master, pid, start, expected_children,
                         countVars>>
  /\ UNCHANGED <<now, herderVars, MANAGED_PIDS, spawnVars, loop_ret,
                 delivered, hframes>>
  /\ UNCHANGED cmdVars
  /\ UNCHANGED reload_req

\* herder.py:313: time.sleep(1)
KillSleep ==
  /\ pc = "kill_sleep"
  /\ MainRuns
  /\ NoRelay
  /\ \E t \in SleepEnd(now, KillPause) :
       /\ t <= MaxTime
       /\ now' = t
  /\ pc' = "kill_2"
  /\ UNCHANGED <<herderVars, MANAGED_PIDS, spawnVars, sent, localVars,
                 loopRet, delivered, hframes, it>>
  /\ UNCHANGED countVars
  /\ UNCHANGED cmdVars
  /\ UNCHANGED reload_req

\* herder.py:314-315: second send of _kill_old_master; NoSuchProcess is
\* caught nowhere and leaves loop()
KillSecond ==
  /\ pc = "kill_2"
  /\ MainRuns
  /\ NoRelay
  /\ \E outcome \in SendOutcomes :
       IF outcome = "sent"
       THEN /\ sent' = Append(sent, SendAt(KillSequence[2], KillTarget,
                                           "kill_old_master", now))
            /\ it' = Tag("kill_2")
            /\ pc' = "L200"
            /\ loop_exc' = loop_exc
       ELSE /\ sent' = sent
            /\ it' = it
            /\ pc' = "raised"
            /\ loop_exc' = "NoSuchProcess"
  /\ IF pc' = "raised" THEN Unwind ELSE UNCHANGED <<localVars, countVars>>
  /\ UNCHANGED <<now, herderVars, MANAGED_PIDS, spawnVars, loop_ret,
                 delivered, hframes>>
  /\ UNCHANGED cmdVars
  /\ UNCHANGED reload_req

\* herder.py:200: self.reloading = False
ClearReloading ==
  /\ pc = "L200"
  /\ MainRuns
  /\ NoRelay
  /\ reloading' = FALSE
  /\ it' = Tag("clear")
  /\ pc' = "L202"
  /\ UNCHANGED <<now, master, terminating, MANAGED_PIDS, spawnVars, sent,
                 localVars, loopRet, delivered, hframes>>
  /\ UNCHANGED countVars
  /\ UNCHANGED cmdVars
  /\ UNCHANGED reload_req

\* herder.py:202-204: MANAGED_PIDS.remove(old_master.pid); return True.
\* set.remove raises KeyError when the element is absent.
RemoveOld ==
  /\ pc = "L202"
  /\ MainRuns
  /\ NoRelay
  /\ IF old_master \in MANAGED_PIDS
     THEN /\ MANAGED_PIDS' = MANAGED_PIDS \ {old_master}
          /\ it' = Tag("remove_old")
          /\ pc' = "L169"
          /\ UNCHANGED loop_exc
     ELSE /\ loop_exc' = "KeyError"
          /\ pc' = "raised"
          /\ UNCHANGED <<MANAGED_PIDS, it>>
  /\ old_master' = NoPid
  /\ expected_children' = 0
  /\ wstart' = 0
  /\ reload_req' = reload_req \ {old_master}
  /\ UNCHANGED loop_ret
  /\ UNCHANGED <<now, herderVars, spawnVars, sent, pid, start, delivered, hframes>>
  /\ UNCHANGED countVars
  /\ UNCHANGED cmdVars

\* herder.py:169: time.sleep(2) between two iterations
LoopSleep ==
  /\ pc = "L169"
  /\ MainRuns
  /\ NoRelay
  /\ \E t \in SleepEnd(now, LoopPause) :
       /\ t <= MaxTime
       /\ now' = t
  /\ pc' = "L172"
  /\ UNCHANGED <<herderVars, MANAGED_PIDS, spawnVars, sent, localVars,
                 loopRet, delivered, hframes, it>>
  /\ UNCHANGED countVars
  /\ UNCHANGED cmdVars
  /\ UNCHANGED reload_req

\* herder.py:165-168: _loop_inner returned False; loop() returns its status
LoopDied ==
  /\ pc = "died"
  /\ MainRuns
  /\ NoRelay
  /\ loop_ret' = LoopStatus(terminating)
  /\ loop_exc' = loop_exc
  /\ pc' = "exited"
  /\ UNCHANGED <<now, herderVars, MANAGED_PIDS, spawnVars, sent, localVars,
                 delivered, hframes, it>>
  /\ UNCHANGED countVars
  /\ UNCHANGED cmdVars
  /\ UNCHANGED reload_req

\* -------------------------------------------------------- signal handlers
\* faulty variant: the handler does not test self.master
NoTrackedProcess_mut == FALSE
\* herder.py:235 and 249: `if self.master is None`
NoTrackedProcess == master = NoPid

\* herder.py:244 and 255: self.master.send_signal(...)
RelayTarget == master

\* the handler that is executing: the innermost frame
Top == hframes[Len(hframes)]

\* the stack after the executing handler has moved to position p
TopAt(p) == [hframes EXCEPT ![Len(hframes)].at = p]

\* the stack after the executing handler has returned
Returned == SubSeq(hframes, 1, Len(hframes) - 1)

\* herder.py:148 and 156-158: a signal that has a handler installed
\* arrives and the interpreter calls the handler, in the main thread,
\* between two instructions of whatever is running: spawn(), loop(), the
\* caller of loop(), the exit functions, or another handler.  The handlers
\* are never uninstalled.
\* A running handler can be preempted before its first line and inside
\* each of its log calls (lines 236, 240, 243, 253).  Position "entry"
\* stands for every point before the flag is written: the lines up to
\* there only read self.master, which no handler writes, so a handler
\* that starts anywhere among them finds and leaves what it would at the
\* first line, and an exception it raises either unwinds this handler
\* before its flag is written or is caught inside this handler's log call
\* (HandlerRaise), which returns.  Position "send" is the log call of
\* line 243 (for HUP the library code line 255 runs before the signal
\* leaves): the flag is written, the signal not yet sent.
Deliver(name) ==
  /\ name \in installed
  /\ delivered < MaxSignals
  /\ delivered' = delivered + 1
  /\ relayed' = <<>>
  /\ hframes' = Append(hframes, [sig |-> name, at |-> "entry"])
  /\ UNCHANGED <<pc, now, herderVars, MANAGED_PIDS, spawnVars, sent,
                 localVars, loopRet, it>>
  /\ UNCHANGED countVars
  /\ UNCHANGED cmdVars
  /\ UNCHANGED reload_req

\* an exception raised in a handler that no log call on the way catches:
\* it unwinds every handler that is running (none of them has a try) and
\* is raised in the main thread where it was interrupted
RaiseInMain ==
  /\ hframes' = <<>>
  /\ pc' = PcAfterRaise
  /\ loop_exc' = LoopExcAfterRaise

\* herder.py:167, 184, 190, 222-223, 287, 292, 311 and 314: the main
\* thread is at a position whose code makes a log call.  Lines 184 and 190
\* log only a first or a changed master; no log call lies in the code
\* around loop() or in the exit functions.
MainInLogCall ==
  \/ pc \in {"read_sleep", "wfw_overlap", "kill_1", "kill_2", "died"}
  \/ pc = "L183" /\ (old_master = NoPid \/ MasterChanged)

\* herder.py:240, 243 and 253: a handler that found a tracked master is at
\* a position whose code makes a log call: line 240 (INT, QUIT, TERM) or
\* line 253 (HUP) before its flag is written, line 243 before a forwarded
\* signal is sent.  _handle_HUP has no log call between lines 254 and 255.
FrameInLogCall(f) ==
  IF f.at = "entry"
  THEN f.sig \in {"HUP"} \cup TerminatingSignals
  ELSE f.sig \in ForwardedSignals

\* the code at depth j of the interrupted stack (0: the main thread, j:
\* the handler hframes[j]) is in a log call
InLogCall(j) == IF j = 0 THEN MainInLogCall ELSE FrameInLogCall(hframes[j])

\* herder.py:244 and 255 raise NoSuchProcess in the executing handler.
\* The handler and every handler it interrupted have no try, so the
\* exception travels down the interrupted stack.  Code that was
\* interrupted while its log record was being written is inside
\* logging.Handler.emit, whose `except Exception` reports the exception
\* and lets the log call return: that code goes on and the handlers above
\* it are gone.  Interrupted elsewhere in the same log call it is unwound
\* too; what nothing catches is raised in the main thread.
HandlerRaise ==
  \/ RaiseInMain
  \/ \E j \in 0 .. Len(hframes) - 1 :
       /\ InLogCall(j)
       /\ hframes' = SubSeq(hframes, 1, j)
       /\ UNCHANGED <<pc, loop_exc>>

\* herder.py:249-254: _handle_HUP from its first line to the assignment
\* of self.reloading; without a tracked master it returns (lines 249-251)
HandleHUPEnter ==
  /\ hframes # <<>>
  /\ Top.sig = "HUP"
  /\ Top.at = "entry"
  /\ relayed' = <<>>
  /\ IF NoTrackedProcess
     THEN reloading' = reloading /\ hframes' = Returned
     ELSE reloading' = TRUE /\ hframes' = TopAt("send")
  /\ UNCHANGED <<pc, now, master, terminating, MANAGED_PIDS, spawnVars,
                 sent, localVars, loopRet, delivered, it>>
  /\ UNCHANGED countVars
  /\ UNCHANGED cmdVars
  /\ UNCHANGED reload_req

\* herder.py:255: self.master.send_signal(signal.SIGUSR2); NoSuchProcess
\* is caught by no handler and leaves it
HandleHUPSend ==
  /\ hframes # <<>>
  /\ Top.sig = "HUP"
  /\ Top.at = "send"
  /\ \E outcome \in SendOutcomes :
       IF outcome = "sent"
       THEN /\ relayed' = <<Relay(ReloadSignal, RelayTarget, "handle_HUP",
                                  terminating)>>
            /\ reload_req' = reload_req \cup {master}
            /\ hframes' = Returned
            /\ UNCHANGED <<pc, loop_exc>>
       ELSE /\ relayed' = <<>>
            /\ reload_req' = reload_req
            /\ HandlerRaise
  /\ AfterHandler
  /\ UNCHANGED <<now, herderVars, MANAGED_PIDS, spawnVars, sent, loop_ret,
                 delivered, it>>
  /\ UNCHANGED cmdVars

\* herder.py:235-241: _handler from its first line to the assignment of
\* self.terminating; without a tracked master it returns (lines 235-237)
HandleSignalEnter ==
  /\ hframes # <<>>
  /\ Top.sig \in ForwardedSignals
  /\ Top.at = "entry"
  /\ relayed' = <<>>
  /\ IF NoTrackedProcess
     THEN terminating' = terminating /\ hframes' = Returned
     ELSE /\ terminating' = (terminating \/ Top.sig \in TerminatingSignals)
          /\ hframes' = TopAt("send")
  /\ UNCHANGED <<pc, now, master, reloading, MANAGED_PIDS, spawnVars,
                 sent, localVars, loopRet, delivered, it>>
  /\ UNCHANGED countVars
  /\ UNCHANGED cmdVars
  /\ UNCHANGED reload_req

\* herder.py:243-244: self.master.send_signal(signum); NoSuchProcess is
\* caught by no handler and leaves it
HandleSignalSend ==
  /\ hframes # <<>>
  /\ Top.sig \in ForwardedSignals
  /\ Top.at = "send"
  /\ \E outcome \in SendOutcomes :
       IF outcome = "sent"
       THEN /\ relayed' = <<Relay(Top.sig, RelayTarget, "handle_signal",
                                  terminating)>>
            /\ hframes' = Returned
            /\ UNCHANGED <<pc, loop_exc>>
       ELSE /\ relayed' = <<>>
            /\ HandlerRaise
  /\ AfterHandler
  /\ UNCHANGED <<now, herderVars, MANAGED_PIDS, spawnVars, sent, loop_ret,
                 delivered, it>>
  /\ UNCHANGED cmdVars
  /\ UNCHANGED reload_req

\* ------------------------------------------------------------------ atexit
\* no iteration of the monitor loop is in progress
NoIteration ==
  [trace |-> <<>>, found |-> "unchecked", entry |-> FALSE, retries |-> 0]

\* herder.py:263-270: at interpreter exit every PID of the registry that
\* still names a process is killed; the registry itself is not changed.
\* Every frame of the main thread has been left by then.
EmergencySlaughter ==
  /\ pc \in {"spawn_failed", "exited", "raised"}
  /\ MainRuns
  /\ NoRelay
  /\ \E live \in SUBSET MANAGED_PIDS :
       /\ (FgPid \in live) => (fg = "running")
       /\ slaughtered' = live
  /\ pc' = "reaped"
  /\ Unwind
  /\ it' = NoIteration
  /\ UNCHANGED <<now, herderVars, MANAGED_PIDS, installed, fg, spawn_ret,
                 sent, loopRet, delivered, hframes>>
  /\ UNCHANGED cmdVars
  /\ UNCHANGED reload_req

\* -------------------------------------------------------------------- Next
Next ==
  \/ SpawnResolve
  \/ SpawnLaunch
  \/ SpawnSuccess
  \/ InstallHUP
  \/ InstallForwarded
  \/ SpawnReturn
  \/ SpawnTimeout
  \/ IterStart
  \/ ReadPidfile
  \/ ReadRetry
  \/ TestPid
  \/ ResolveMaster
  \/ Register
  \/ CheckReloading
  \/ WorkerPoll
  \/ WorkerSleep
  \/ OverlapSleep
  \/ KillFirst
  \/ KillSleep
  \/ KillSecond
  \/ ClearReloading
  \/ RemoveOld
  \/ LoopSleep
  \/ LoopDied
  \/ \E name \in {"HUP"} \cup ForwardedSignals : Deliver(name)
  \/ HandleHUPEnter
  \/ HandleHUPSend
  \/ HandleSignalEnter
  \/ HandleSignalSend
  \/ EmergencySlaughter

Spec == Init /\ [][Next]_vars

\* ----------------------------------------------------------- construction
\* before Herder(unicorn, unicorn_bin, gunicorn_bin) runs, for every choice
\* of the three arguments
InitCtor ==
  /\ pc = "ctor"
  /\ config \in Configs
  /\ unicorn = Unset
  /\ cmd = NoCmd
  /\ now = 0
  /\ master = NoPid
  /\ reloading = FALSE
  /\ terminating = FALSE
  /\ MANAGED_PIDS = {}
  /\ installed = {}
  /\ sent = <<>>
  /\ relayed = <<>>
  /\ old_master = NoPid
  /\ pid = NoPid
  /\ start = 0
  /\ expected_children = 0
  /\ wstart = 0
  /\ fg = "none"
  /\ spawn_ret = "none"
  /\ loop_ret = NotReturned
  /\ loop_exc = "none"
  /\ delivered = 0
  /\ hframes = <<>>
  /\ slaughtered = {}
  /\ it = [trace |-> <<>>, found |-> "unchecked", entry |-> FALSE,
           retries |-> 0]
  /\ old_children = NoCount
  /\ polled = NoCount
  /\ reload_req = {}

\* herder.py:73-97: __init__ sets self.unicorn, then raises HerderError or
\* finishes the object
Construct ==
  /\ pc = "ctor"
  /\ unicorn' = SelfUnicorn(config)
  /\ pc' = IF CtorRaises(config) THEN "ctor_raised" ELSE "new"
  /\ UNCHANGED <<now, herderVars, MANAGED_PIDS, spawnVars, sent, localVars,
                 loopRet, sigVars, it, countVars, config, cmd>>
  /\ UNCHANGED reload_req

\* construction followed by the command resolution of spawn()
NextCtor ==
  \/ Construct
  \/ SpawnResolve

SpecCtor == InitCtor /\ [][NextCtor]_vars

TypeOK ==
  /\ now \in 0 .. MaxTime
  /\ master \in MasterPids \cup {NoPid}
  /\ reloading \in BOOLEAN
  /\ terminating \in BOOLEAN
  /\ MANAGED_PIDS \subseteq MasterPids \cup {FgPid}
  /\ delivered \in 0 .. MaxSignals
  /\ Len(hframes) <= delivered
  /\ \A i \in 1 .. Len(hframes) :
       /\ hframes[i].sig \in {"HUP"} \cup ForwardedSignals
       /\ hframes[i].at \in {"entry", "send"}
  /\ old_children \in 0 .. MaxChildren \cup {NoCount}
  /\ polled \in 0 .. MaxChildren \cup {NoCount}
  /\ reload_req \subseteq MasterPids
  /\ config \in Configs
  /\ unicorn \in Flavors \cup Bins \cup {Unset}

\* ================================================================= claims
\* the signals _kill_old_master has sent, in order
KillLog == SelectSeq(sent, LAMBDA r : r.by = "kill_old_master")

\* a step in which a handler starts or a running handler executes
HandlerStep == hframes # <<>> \/ hframes' # <<>>

\* a step of the code of the handler that is executing
HandlerCode == hframes # <<>> /\ delivered' = delivered

\* the executing handler runs from its first line to its log call
Entering == HandlerCode /\ Top.at = "entry"

\* the executing handler makes its send_signal call
Sending == HandlerCode /\ Top.at = "send"

\* C1 as stated: every execution of _kill_old_master sends WINCH to the
\* old master, then, at least one second later, QUIT to the same process,
\* each of the two once: the signals it has sent come in WINCH/QUIT
\* pairs, and a pair is open only while the routine is between its two
\* sends.
C1_KillOrder ==
  /\ \A i \in 1 .. Len(KillLog) :
       IF i % 2 = 1
       THEN KillLog[i].sig = "WINCH"
       ELSE /\ KillLog[i].sig = "QUIT"
            /\ KillLog[i].to = KillLog[i - 1].to
            /\ KillLog[i].at - KillLog[i - 1].at >= 1
  /\ (Len(KillLog) % 2 = 1) <=> (pc \in {"kill_sleep", "kill_2"})
  /\ (pc \in {"kill_sleep", "kill_2", "L200"}) =>
       /\ Len(KillLog) >= 1
       /\ KillLog[Len(KillLog)].to = old_master
       /\ old_master # NoPid

\* C2: the status loop() returns tells an unexpected death of the master
\* (terminating is false: a non-zero status) from an operator-initiated
\* shutdown (terminating is true: a clean status, different from the one
\* of an unexpected death).
C2_StatusDistinguishes ==
  (pc = "exited") =>
     IF terminating
     THEN loop_ret = 0 /\ loop_ret # LoopStatus(FALSE)
     ELSE loop_ret # 0

\* C4 as stated: the HUP handler, run while a master is tracked, sets
\* reloading and sends exactly one USR2 to the master tracked at that
\* moment; it leaves terminating, the tracked master and the registry
\* alone.
C4_HUPTracked ==
  [][/\ (Entering /\ Top.sig = "HUP" /\ master # NoPid) =>
          /\ reloading'
          /\ relayed' = <<>>
          /\ hframes' = TopAt("send")
          /\ UNCHANGED <<terminating, master, MANAGED_PIDS, sent>>
     /\ (Sending /\ Top.sig = "HUP") =>
          /\ relayed' = <<[sig |-> "USR2", to |-> master,
                           by |-> "handle_HUP", term |-> terminating]>>
          /\ hframes' = Returned
          /\ UNCHANGED <<reloading, terminating, master, MANAGED_PIDS,
                         sent>>]_vars

\* C5 as stated: the handler of a forwarded signal, run while a master is
\* tracked, sends that signal exactly once to the tracked master; for INT,
\* QUIT and TERM terminating is true afterwards and was already true when
\* the signal was sent; for TTIN, TTOU, USR1 and USR2 terminating is
\* unchanged.
C5_Forwarded ==
  [][/\ (/\ Entering
         /\ Top.sig \in {"INT", "QUIT", "TERM", "TTIN", "TTOU", "USR1",
                          "USR2"}
         /\ master # NoPid) =>
          /\ IF Top.sig \in {"INT", "QUIT", "TERM"}
             THEN terminating'
             ELSE terminating' = terminating
          /\ relayed' = <<>>
          /\ hframes' = TopAt("send")
          /\ UNCHANGED <<reloading, master, MANAGED_PIDS, sent>>
     /\ (/\ Sending
         /\ Top.sig \in {"INT", "QUIT", "TERM", "TTIN", "TTOU", "USR1",
                          "USR2"}) =>
          /\ Len(relayed') = 1
          /\ relayed'[1].sig = Top.sig
          /\ relayed'[1].to = master
          /\ relayed'[1].by = "handle_signal"
          /\ relayed'[1].term = terminating
          /\ (Top.sig \in {"INT", "QUIT", "TERM"}) => relayed'[1].term
          /\ hframes' = Returned
          /\ UNCHANGED <<reloading, terminating, master, MANAGED_PIDS,
                         sent>>]_vars

\* C6: a handler (HUP or forwarded) that runs while no master is tracked
\* does nothing: it returns from its first test, it sends no signal, no
\* error ends the run, and reloading, terminating, the tracked master and
\* the registry are unchanged.  This holds wherever the signal arrives:
\* in spawn(), in loop(), after loop() has ended, during the exit
\* functions, and while another handler is running.
C6_NoMasterNoop ==
  /\ []((master = NoPid) =>
          (\A i \in 1 .. Len(hframes) : hframes[i].at = "entry"))
  /\ [][(HandlerStep /\ master = NoPid) =>
          /\ relayed' = <<>>
          /\ HandlerCode => hframes' = Returned
          /\ UNCHANGED <<sent, reloading, terminating, master, MANAGED_PIDS,
                         pc, loop_ret, loop_exc, reload_req>>]_vars

\* no master was ever tracked and the exit functions are running: one
\* handler has run to its end and the TERM handler has started
C6_Witness ==
  /\ pc = "reaped"
  /\ master = NoPid
  /\ delivered = 2
  /\ hframes = <<[sig |-> "TERM", at |-> "entry"]>>
  /\ relayed = <<>>
  /\ sent = <<>>
  /\ ~reloading
  /\ ~terminating

\* ---------------------------------------------------------------- C3
DidIn(h, tag) == \E i \in 1 .. Len(h.trace) : h.trace[i] = tag

\* the step with which _loop_inner returns True
IterEnds == pc \in {"L183", "L202"} /\ pc' = "L169"

\* the traces of an iteration that ran the handover
HandoverTraces ==
  {<<"add_new", "wait", w, "kill_1", "kill_2", "clear", "remove_old">> :
     w \in {"overlap", "timeout"}}

\* C3 as stated: the handover (wait_for_workers, then kill_old_master) runs
\* in an iteration iff the iteration had a tracked master, read another PID
\* and found reloading set; when it ran, reloading is false when the
\* iteration ends; with no prior master or an unchanged PID no handover runs
\* and reloading is, at the end, what it was when the iteration started.
C3_AsStated ==
  [][IterEnds =>
       /\ (DidIn(it', "wait") /\ DidIn(it', "kill_2")) <=>
            (old_master # NoPid /\ master # old_master /\ it'.found = "set")
       /\ DidIn(it', "wait") => ~reloading'
       /\ (old_master = NoPid \/ master = old_master) =>
            (~DidIn(it', "wait") /\ reloading' = it'.entry)]_vars

\* C3 amended: the handover runs in an iteration iff the iteration had a
\* tracked master, read another PID and found reloading set; when it runs,
\* the iteration assigns reloading = false right after kill_old_master
\* returns; no other step of the loop writes reloading, which can therefore
\* differ at the end of the iteration only because a HUP handler preempted
\* the iteration; with no prior master or an unchanged PID no handover runs.
C3_Handover ==
  [][/\ IterEnds =>
          /\ (DidIn(it', "wait") /\ DidIn(it', "kill_2")) <=>
               (old_master # NoPid /\ master # old_master
                  /\ it'.found = "set")
          /\ DidIn(it', "wait") => it'.trace \in HandoverTraces
          /\ (old_master = NoPid \/ master = old_master) =>
               ~DidIn(it', "wait")
     /\ (pc = "L200" /\ pc' # pc /\ ~HandlerStep) =>
          (~reloading' /\ pc' = "L202")
     /\ (reloading' # reloading) =>
          \/ Entering /\ Top.sig = "HUP" /\ reloading'
          \/ pc = "L200" /\ pc' = "L202" /\ ~reloading']_vars

C3_Witness ==
  /\ pc = "L169"
  /\ it.trace \in HandoverTraces
  /\ it.found = "set"
  /\ ~reloading
  /\ Len(KillLog) = 2

\* ---------------------------------------------------------------- C7
TermToFg == SelectSeq(sent, LAMBDA r : r.by = "spawn")

\* C7 as stated: after spawn() failed on the boot timeout the foreground
\* process has been sent TERM and its PID is no longer in the registry.
C7_AsStated ==
  (spawn_ret = "false_timeout") =>
     /\ Len(TermToFg) = 1
     /\ FgPid \notin MANAGED_PIDS

\* C7 amended: after spawn() failed on the boot timeout the foreground
\* process has been sent TERM once if it was still running when polled (and
\* nothing otherwise), and its PID is still in the registry.
C7_BootTimeout ==
  (spawn_ret = "false_timeout") =>
     /\ FgPid \in MANAGED_PIDS
     /\ IF fg = "running"
        THEN /\ Len(TermToFg) = 1
             /\ TermToFg[1].sig = "TERM"
             /\ TermToFg[1].to = FgPid
             /\ TermToFg[1].at >= boot_timeout
        ELSE TermToFg = <<>>

C7_Witness ==
  /\ spawn_ret = "false_timeout"
  /\ fg = "running"
  /\ Len(sent) = 1
  /\ sent[1].sig = "TERM"

\* ---------------------------------------------------------------- C8
\* C8 as stated: the PID of the foreground process is in the registry
\* from its launch until spawn() returns, and is not in the registry once
\* spawn() has returned True.
C8_AsStated ==
  /\ (fg # "none" /\ spawn_ret = "none") => FgPid \in MANAGED_PIDS
  /\ (spawn_ret = "true") => FgPid \notin MANAGED_PIDS

\* spawn() is between the removal of line 145 and its return of line 160
Installing == pc \in {"L148", "L156", "L160"}

\* C8 amended: the PID of the foreground process is in the registry from
\* its launch until the wait for it has ended.  When the process exited in
\* time the PID is removed at once, before spawn() installs its handlers
\* and returns True, and it is not in the registry from then on; the
\* steps from the removal to the return do not touch the registry.
C8_ForegroundRegistered ==
  /\ [](/\ (pc = "spawn_wait") => (fg = "running" /\ FgPid \in MANAGED_PIDS)
        /\ Installing =>
             (fg = "exited" /\ spawn_ret = "none" /\ MANAGED_PIDS = {})
        /\ (spawn_ret = "true") => FgPid \notin MANAGED_PIDS)
  /\ [][(pc = "spawn_wait" /\ pc' = "L148") =>
          (FgPid \in MANAGED_PIDS /\ FgPid \notin MANAGED_PIDS')]_vars

\* spawn() has removed the PID and is still installing handlers
C8_Witness ==
  /\ pc = "L156"
  /\ spawn_ret = "none"
  /\ fg = "exited"
  /\ FgPid \notin MANAGED_PIDS
  /\ installed = {"HUP", "INT"}

\* ---------------------------------------------------------------- C9
\* C9: a spawn() that returned False or raised (executable not found,
\* boot timeout) has installed no handler, and a spawn() that returned True
\* has installed all eight.  Handlers are installed only after the
\* foreground process has exited in time, from where spawn() can only go
\* on to return True; a handler that runs before a master is tracked
\* relays nothing, so that every relayed signal follows a successful
\* spawn().
C9_HandlersIffSpawned ==
  /\ [](/\ (spawn_ret = "true") => installed = InstalledOnSuccess
        /\ (spawn_ret \in {"false_notfound", "false_timeout", "false_nocmd",
                           "raised", "raised_KeyError"}) => installed = {}
        /\ (installed # {}) =>
             (fg = "exited" /\ (spawn_ret = "true" \/ pc \in {"L156", "L160"}))
        /\ (relayed # <<>>) => (spawn_ret = "true" /\ master # NoPid))
  /\ [][(Installing /\ pc' # pc) =>
          /\ pc' \in {"L156", "L160", "L172"}
          /\ (pc' = "L172") => spawn_ret' = "true"]_vars

C9_Witness ==
  /\ spawn_ret = "false_timeout"
  /\ pc = "spawn_failed"
  /\ installed = {}

\* ---------------------------------------------------------------- C10
\* C10: _read_pidfile raises HerderError only from its retry sleep and only
\* when more than pidfile_timeout seconds have passed since the read
\* started; while reads fail and terminating is false it does not return
\* (it retries until then); it returns None only when terminating is set,
\* and a read that succeeds returns the PID without an error.
C10_PidfileTimeout ==
  [][/\ (loop_exc' = "HerderError") =>
          /\ pc = "read_sleep" \/ loop_exc = "HerderError"
          /\ now' - start' > pidfile_timeout
     /\ (pc = "read_sleep" /\ pc' # pc /\ ~HandlerStep) =>
          /\ now' - now >= 1
          /\ loop_ret' = NotReturned
          /\ IF now' - start > pidfile_timeout
             THEN pc' = "raised" /\ loop_exc' = "HerderError"
             ELSE pc' = "read" /\ loop_exc' = "none"
     /\ (pc = "read" /\ pc' # pc /\ ~HandlerStep) =>
          pc' \in {"read_sleep", "L175"}
     /\ (pc = "read" /\ pc' = "read_sleep") => ~terminating
     /\ (pc = "read" /\ pc' = "L175") =>
          /\ pid' \in MasterPids \cup {NoPid}
          /\ (pid' = NoPid) => terminating
          /\ loop_exc' = "none"]_vars

C10_Witness ==
  /\ pc = "raised"
  /\ loop_exc = "HerderError"
  /\ ~terminating
  /\ now - start > pidfile_timeout

\* ---------------------------------------------------------------- C11
\* C11: a pidfile read that fails while terminating is true never raises
\* the pidfile-timeout error: it yields no PID, the iteration reports the
\* master gone and loop() returns a status.  This is so on the first read
\* of an iteration as well as after retries that began while terminating
\* was still false; HerderError is only raised out of a retry whose failed
\* read saw terminating false.  (The steps are those of the main thread;
\* a handler that runs in between can end loop() with NoSuchProcess.)
C11_TerminatingRead ==
  [][/\ (pc = "read" /\ terminating /\ pc' # pc /\ ~HandlerStep) =>
          /\ pc' = "L175"
          /\ pid' \in MasterPids \cup {NoPid}
          /\ master' = master
          /\ loop_exc' = "none"
     /\ (pc = "L175" /\ pid = NoPid /\ pc' # pc /\ ~HandlerStep) =>
          (pc' = "died" /\ master' = master /\ loop_exc' = "none")
     /\ (pc = "read" /\ pc' = "read_sleep") =>
          (~terminating /\ it'.retries = it.retries + 1)
     /\ (loop_exc' = "HerderError" /\ loop_exc = "none") =>
          (pc = "read_sleep" /\ it.retries >= 1 /\ ~HandlerStep)
     /\ (pc = "died" /\ pc' # pc /\ ~HandlerStep) =>
          (pc' = "exited" /\ loop_ret' = 1 /\ loop_exc' = "none")]_vars

C11_Witness ==
  /\ pc = "exited"
  /\ terminating
  /\ it.retries >= 1
  /\ it.trace = <<>>
  /\ loop_ret = 1
  /\ loop_exc = "none"

\* ---------------------------------------------------------------- C12
\* seconds elapsed since _wait_for_workers armed its timeout
Waited == now - wstart

\* C12 as stated: _wait_for_workers always returns into _kill_old_master.
\* When the target is never reached it returns max_worker_wait_time seconds
\* after entry, which is within max_worker_wait_time + overlap.  When the
\* target is reached the polling has taken at most max_worker_wait_time
\* seconds and the routine then sleeps for overlap seconds, so at least
\* overlap seconds pass before it returns and at most max_worker_wait_time
\* + overlap plus what that one sleep overshoots.  No step of the routine
\* raises: from its call at line 198 the main thread goes through the
\* polling to the first send of _kill_old_master.
C12_WaitReturns ==
  /\ [](/\ pc \in {"wfw_poll", "wfw_sleep", "wfw_overlap"} =>
             (Waited >= 0 /\ Waited <= max_worker_wait_time)
        /\ (pc = "kill_1" /\ DidIn(it, "timeout")) =>
             (Waited = max_worker_wait_time /\ ~DidIn(it, "overlap"))
        /\ (pc = "kill_1" /\ DidIn(it, "overlap")) =>
             /\ Waited >= overlap
             /\ Waited <= max_worker_wait_time + overlap + Jitter
             /\ ~DidIn(it, "timeout"))
  /\ [][/\ (pc = "L197" /\ reloading /\ pc' # pc /\ ~HandlerStep) =>
             (pc' = "wfw_poll" /\ loop_exc' = "none")
        /\ (/\ pc \in {"wfw_poll", "wfw_sleep", "wfw_overlap"}
            /\ pc' # pc
            /\ ~HandlerStep) =>
             /\ pc' \in {"wfw_poll", "wfw_sleep", "wfw_overlap", "kill_1"}
             /\ loop_exc' = "none"
        /\ (pc' = "kill_1" /\ pc # pc') =>
             /\ pc \in {"wfw_poll", "wfw_sleep", "wfw_overlap"}
             /\ loop_exc' = "none"]_vars

\* ---------------------------------------------------------------- C13
\* control is inside _wait_for_workers
InWait == pc \in {"wfw_poll", "wfw_sleep", "wfw_overlap"}

\* C13: the target of _wait_for_workers is the old master's child count
\* less one, and 1 when that is below 1 (3 gives 2, 0 and 1 give 1); it is
\* computed on entry and never changes while the routine runs.  The overlap
\* sleep is entered only after a poll saw at least that many children of
\* the new master; a poll that saw fewer is followed by a sleep and, unless
\* the wait budget ran out during it, by another poll.
C13_ExpectedChildren ==
  /\ [](InWait =>
          /\ old_children \in 0 .. MaxChildren
          /\ expected_children =
               (IF old_children - 1 >= 1 THEN old_children - 1 ELSE 1)
          /\ (pc = "wfw_overlap") => (polled >= expected_children)
          /\ (pc = "wfw_sleep") =>
               (polled # NoCount /\ polled < expected_children))
  /\ [][/\ (InWait /\ InWait') => expected_children' = expected_children
        /\ (pc = "wfw_sleep" /\ pc' # pc /\ ~HandlerStep) =>
             \/ pc' = "wfw_poll"
             \/ pc' = "kill_1" /\ now' - wstart >= max_worker_wait_time
        /\ (pc' = "wfw_overlap" /\ pc # pc') => pc = "wfw_poll"]_vars

\* the old master had three children, the new master has none yet
C13_Witness ==
  /\ pc = "wfw_sleep"
  /\ old_children = 3
  /\ expected_children = 2
  /\ polled = 0
  /\ Waited >= 1

\* ---------------------------------------------------------------- C14
\* control is between the registration of a changed PID (line 195) and the
\* removal of the old one (line 202)
Replacing ==
  pc \in {"L197", "wfw_poll", "wfw_sleep", "wfw_overlap", "kill_1",
          "kill_sleep", "kill_2", "L200", "L202"}

\* C14 as stated: an iteration that finds a PID different from the tracked
\* master's registers the new PID before anything else and removes the old
\* PID as its last step, whether self.reloading was set or not: whichever
\* way the main thread leaves the iteration, the old PID has been removed
\* and the new one is registered.  From the registration to the removal
\* the registry holds both PIDs, and when self.reloading was found clear
\* the iteration does nothing in between.
C14_AsStated ==
  /\ [](Replacing =>
          /\ {master, old_master} \subseteq MANAGED_PIDS
          /\ it.trace # <<>>
          /\ it.trace[1] = "add_new"
          /\ (it.found = "clear") => (pc = "L202" /\ it.trace = <<"add_new">>))
  /\ [][(Replacing /\ ~Replacing' /\ ~HandlerStep) =>
          /\ old_master \notin MANAGED_PIDS'
          /\ master \in MANAGED_PIDS']_vars

\* ---------------------------------------------------------------- C15
\* C15: once spawn() has succeeded, whenever an iteration of the monitor
\* loop has reported the master alive (control is at the sleep of line
\* 169) the registry holds exactly the PID of the tracked master, whatever
\* iterations came before; and the PID removed at line 202 is in the
\* registry, so that the removal never raises KeyError.
C15_RegistryIsMaster ==
  /\ (pc = "L169") =>
       (spawn_ret = "true" /\ master # NoPid /\ MANAGED_PIDS = {master})
  /\ (pc = "L202") => (old_master \in MANAGED_PIDS)
  /\ loop_exc # "KeyError"

\* an iteration that found the PID unchanged, after an earlier iteration
\* that handed over from another master
C15_Witness ==
  /\ pc = "L169"
  /\ it.trace = <<>>
  /\ Len(KillLog) = 2
  /\ KillLog[2].to # master
  /\ MANAGED_PIDS = {master}

\* ---------------------------------------------------------------- C16
\* C16: WINCH has no handler and no handler passes a WINCH on.  WINCH is
\* only ever sent by _kill_old_master, and every send of _kill_old_master
\* (its WINCH and its QUIT) is made inside a handover, to the old master,
\* which at the time of the send is not the tracked master.
C16_WinchOnlyToOld ==
  /\ []("WINCH" \notin installed)
  /\ [](\A i \in 1 .. Len(sent) :
          (sent[i].sig = "WINCH") => (sent[i].by = "kill_old_master"))
  /\ [][/\ HandlerStep =>
             (\A i \in 1 .. Len(relayed') : relayed'[i].sig # "WINCH")
        /\ (Len(sent') > Len(sent) /\
              sent'[Len(sent')].by = "kill_old_master") =>
             /\ pc \in {"kill_1", "kill_2"}
             /\ it.found = "set"
             /\ DidIn(it, "wait")
             /\ sent'[Len(sent')].sig \in {"WINCH", "QUIT"}
             /\ sent'[Len(sent')].to = old_master
             /\ sent'[Len(sent')].to # master
             /\ master' = master]_vars

\* between the two sends of a handover, an operator signal having been
\* relayed to the tracked master meanwhile
C16_Witness ==
  /\ pc = "kill_sleep"
  /\ sent # <<>>
  /\ sent[Len(sent)].sig = "WINCH"
  /\ sent[Len(sent)].to = old_master
  /\ master # old_master
  /\ relayed # <<>>
  /\ relayed[1].to = master
  /\ relayed[1].sig = "QUIT"

\* ---------------------------------------------------------------- C17
\* C17 as stated: with no custom binary, construction succeeds for every
\* flavor name of the command table and raises HerderError for a name
\* outside it; and once construction has succeeded spawn() resolves its
\* command line without a configuration or lookup error.
C17_AsStated ==
  /\ (pc # "ctor" /\ config.unicorn_bin = NoBin /\ config.gunicorn_bin = NoBin)
       => ((pc = "ctor_raised") <=> (config.unicorn \notin DOMAIN COMMANDS))
  /\ spawn_ret # "raised_KeyError"

\* ---------------------------------------------------------------- C18
\* C18: every reload request is honoured.  When _loop_inner lets go of an
\* old master that _handle_HUP had asked to reload while it was tracked,
\* the iteration has run the handover for it: it was sent WINCH and QUIT.
C18_ReloadHonoured ==
  [][(pc = "L202" /\ pc' = "L169" /\ old_master \in reload_req) =>
       (DidIn(it, "kill_1") /\ DidIn(it, "kill_2"))]_vars

\* ---------------------------------------------------------------- C19
\* C19: a step of a handler, wherever the handler preempts the main
\* thread (an iteration of the loop, the exit functions, another
\* handler), writes nothing but self.reloading and self.terminating:
\* self.master, the registry, the installed handlers and the clock are as
\* before, and so are the position and the locals of the main thread
\* unless the step is a send_signal that raised NoSuchProcess (which ends
\* loop(), by the exception or, when line 180 catches it, by the return
\* of its status).  self.master changes only at line 179 of _loop_inner,
\* to the PID read from the pidfile, and once it names a process it is
\* never None again.
C19_HandlersWriteFlags ==
  [][/\ HandlerStep =>
          /\ master' = master
          /\ MANAGED_PIDS' = MANAGED_PIDS
          /\ UNCHANGED <<now, installed, sent, spawnVars, loop_ret, it,
                         cmdVars>>
          /\ \/ pc' = pc /\ UNCHANGED <<localVars, countVars, loop_exc>>
             \/ /\ Sending
                /\ relayed' = <<>>
                /\ hframes' = <<>>
                /\ master # NoPid
                /\ UNCHANGED <<reloading, terminating>>
                /\ IF pc = "L179"
                   THEN pc' = "died" /\ loop_exc' = loop_exc
                   ELSE pc' = "raised"
     /\ (master' # master) =>
          /\ ~HandlerStep
          /\ pc = "L179"
          /\ master' = pid
          /\ master' \in MasterPids
     /\ (master # NoPid) => (master' # NoPid)]_vars

\* the exit functions are running: the TERM handler has set
\* self.terminating and is at its log call, and the HUP handler, started
\* there, has set self.reloading, sent USR2 and returned; the reference
\* still names the master
C19_Witness ==
  /\ pc = "reaped"
  /\ delivered = 2
  /\ hframes = <<[sig |-> "TERM", at |-> "send"]>>
  /\ reloading
  /\ terminating
  /\ relayed = <<Relay("USR2", master, "handle_HUP", TRUE)>>
  /\ master \in MANAGED_PIDS

\* ---------------------------------------------------------------- C20
\* self.master names the replacement and _loop_inner still holds the old
\* master (from line 179 to line 202 of an iteration that found a new PID)
ReplacementRecorded ==
  /\ (pc = "L183" \/ Replacing)
  /\ old_master # NoPid
  /\ master # old_master

\* C20 as stated: once _loop_inner has recorded a replacement, and until
\* it lets go of the old master, the send_signal of a handler passes the
\* signal (USR2 for HUP) to the new master, and no step of a handler sends
\* anything to the old one; INT, QUIT and TERM also set self.terminating.
\* What the old master is sent in that time is the WINCH and the QUIT of
\* _kill_old_master.
C20_RelayToNewMaster ==
  [][/\ (Sending /\ ReplacementRecorded) =>
          /\ Len(relayed') = 1
          /\ relayed'[1].to = master
          /\ relayed'[1].sig =
               (IF Top.sig = "HUP" THEN "USR2" ELSE Top.sig)
          /\ (Top.sig \in {"INT", "QUIT", "TERM"}) => terminating'
     /\ (HandlerStep /\ ReplacementRecorded) =>
          /\ \A i \in 1 .. Len(relayed') : relayed'[i].to # old_master
          /\ sent' = sent
     /\ (/\ Entering
         /\ ReplacementRecorded
         /\ Top.sig \in {"INT", "QUIT", "TERM"}) => terminating'
     /\ (ReplacementRecorded /\ sent' # sent) =>
          /\ ~HandlerStep
          /\ Len(sent') = Len(sent) + 1
          /\ sent'[Len(sent')].by = "kill_old_master"
          /\ sent'[Len(sent')].to = old_master
          /\ sent'[Len(sent')].sig \in {"WINCH", "QUIT"}]_vars

====
